---- MODULE Spec2Model ----
(***************************************************************************)
(* Model of the RATP commerce dashboard (src/streamlit_app.py):            *)
(*   - load_data_from_api: the paginated fetch behind st.cache_data(3600)  *)
(*   - main: the df.empty gate that follows the fetch                      *)
(*   - normalize_columns / extract_coordinates: the column reconciliation  *)
(*     and the coordinate extraction, both working on whole DataFrame      *)
(*     columns.                                                            *)
(***************************************************************************)
EXTENDS Integers, Sequences, FiniteSets, TLC

(***************************************************************************)
(* Bounds of the model.                                                    *)
(***************************************************************************)
MaxCatalog == 201      \* the remote catalog holds 0..MaxCatalog records
MaxTime == 5400        \* the clock stops advancing here (seconds)
MaxCalls == 3          \* runs of main() in one behaviour
MaxNameLen == 1        \* length of the raw column name of the catalog
MaxRecords == 2        \* records of a DataFrame handed to the normalizer
MaxCells == 3          \* values the records of such a DataFrame carry together
Quantum == 1800        \* granularity of the modelled clock (seconds)

(***************************************************************************)
(* Program constants.                                                      *)
(***************************************************************************)
limit == 100           \* page size asked from the API
ttl == 3600            \* st.cache_data(ttl=3600)

VARIABLES
    catalog,       \* number of records the remote catalog holds
    rawName,       \* the field name the catalog's records use (sequence of characters)
    now,           \* wall clock, seconds
    cache,         \* st.cache_data entry of load_data_from_api
    pc,            \* "idle" | "loop" | "returned"
    offset,        \* local of load_data_from_api
    all_records,   \* local of load_data_from_api
    requests,      \* requests.get calls issued so far, all calls together
    callRequests,  \* requests.get calls issued by the current / last call
    calls,         \* calls of load_data_from_api started so far
    hit,           \* the current / last call was answered from the cache
    seenAge,       \* age of the cache entry when the call started, -1 when none
    result,        \* DataFrame returned by the last call
    message,       \* st.* element shown by the last call
    outcome,       \* how the last call ended
    mainOutcome,   \* what main() did with the returned DataFrame
    raw,           \* the DataFrame handed to normalize_columns
    df,            \* the DataFrame being normalized
    phase          \* "input" | "normalized" | "done" ("off" while fetching)

fetchVars == <<catalog, rawName, now, cache, pc, offset, all_records, requests,
               callRequests, calls, hit, seenAge, result, message, outcome,
               mainOutcome>>

normVars == <<raw, df, phase>>

vars == <<fetchVars, normVars>>

(***************************************************************************)
(* DataFrames of the fetch: the rows are the catalog's record numbers, in  *)
(* the order they were appended; columns are the cleaned field names.      *)
(***************************************************************************)
EmptyFrame == [columns |-> {}, rows |-> <<>>]

NoEntry == [set |-> FALSE, at |-> 0, value |-> EmptyFrame, msg |-> "none"]

\* the server's answer to GET ?limit=limit&offset=off : records off+1 .. off+limit
Page(off) ==
    LET hi == IF off + limit < catalog THEN off + limit ELSE catalog
    IN  [i \in 1..(IF hi > off THEN hi - off ELSE 0) |-> off + i]

\* str.lower() on one character
LowerChar(c) == IF c = "A" THEN "a" ELSE c

\* str.replace(' ', '_') on one character
ReplaceChar(c) == IF c = " " THEN "_" ELSE c

\* df.columns.str.lower().str.replace(' ', '_') on one name
CleanName(name) == [i \in 1..Len(name) |-> ReplaceChar(LowerChar(name[i]))]

NameChars == {"A", " "}

RawNames == UNION {[1..n -> NameChars] : n \in 1..MaxNameLen}

\* pd.DataFrame(all_records) followed by the column clean-up
BuildFrame(recs) == [columns |-> {CleanName(rawName)}, rows |-> recs]

\* df.empty
IsEmpty(d) == Len(d.rows) = 0 \/ d.columns = {}

\* mutant of CacheValid: the entry never expires
CacheValid_Mutant == cache.set

\* st.cache_data: an entry is served while its age is below the ttl
CacheValid == cache.set /\ now - cache.at < ttl

Store(d, msg) == [set |-> TRUE, at |-> now, value |-> d, msg |-> msg]

\* the state of the fetch before the first call
FetchIdle ==
    /\ now = 0
    /\ cache = NoEntry
    /\ pc = "idle"
    /\ offset = 0
    /\ all_records = <<>>
    /\ requests = 0
    /\ callRequests = 0
    /\ calls = 0
    /\ hit = FALSE
    /\ seenAge = -1
    /\ result = EmptyFrame
    /\ message = "none"
    /\ outcome = "none"
    /\ mainOutcome = "none"

Init ==
    /\ catalog \in 0..MaxCatalog
    /\ rawName \in RawNames
    /\ FetchIdle
    /\ raw = EmptyFrame
    /\ df = EmptyFrame
    /\ phase = "off"

\* time passes
Tick ==
    /\ now < MaxTime
    /\ now' = now + Quantum
    /\ UNCHANGED <<catalog, rawName, cache, pc, offset, all_records, requests,
                   callRequests, calls, hit, seenAge, result, message, outcome,
                   mainOutcome>>
    /\ UNCHANGED normVars

\* main() calls load_data_from_api and the cache answers
CallHit ==
    /\ pc = "idle"
    /\ calls < MaxCalls
    /\ CacheValid
    /\ calls' = calls + 1
    /\ hit' = TRUE
    /\ seenAge' = now - cache.at
    /\ callRequests' = 0
    /\ result' = cache.value
    /\ message' = cache.msg
    /\ outcome' = "cached"
    /\ pc' = "returned"
    /\ UNCHANGED <<catalog, rawName, now, cache, offset, all_records, requests,
                   mainOutcome>>
    /\ UNCHANGED normVars

\* main() calls load_data_from_api and the body runs
CallMiss ==
    /\ pc = "idle"
    /\ calls < MaxCalls
    /\ ~CacheValid
    /\ calls' = calls + 1
    /\ hit' = FALSE
    /\ seenAge' = IF cache.set THEN now - cache.at ELSE -1
    /\ callRequests' = 0
    /\ all_records' = <<>>
    /\ offset' = 0
    /\ outcome' = "running"
    /\ message' = "none"
    /\ pc' = "loop"
    /\ UNCHANGED <<catalog, rawName, now, cache, requests, result, mainOutcome>>
    /\ UNCHANGED normVars

\* "if len(records) < limit: break", with the mutant that also stops on a full page
ShortPage_Mutant(records) == Len(records) <= limit

ShortPage(records) == Len(records) < limit

\* the value of the except branch: "return pd.DataFrame()", with the mutant
\* that hands back what was gathered so far
FailureValue_Mutant(recs) == IF Len(recs) = 0 THEN EmptyFrame ELSE BuildFrame(recs)

FailureValue(recs) == EmptyFrame

\* the function returns d: the value is stored in the cache with its message
Return(d, msg, how) ==
    /\ result' = d
    /\ message' = msg
    /\ outcome' = how
    /\ cache' = Store(d, msg)
    /\ pc' = "returned"

\* mutant of Finish: an empty result is returned without the st.error
Finish_Mutant(recs) ==
    IF Len(recs) = 0
    THEN Return(EmptyFrame, "none", "ok")
    ELSE Return(BuildFrame(recs), "success", "ok")

\* what follows the while loop
Finish(recs) ==
    IF Len(recs) = 0
    THEN Return(EmptyFrame, "error_no_data", "ok")
    ELSE Return(BuildFrame(recs), "success", "ok")

\* one iteration of the while loop whose request succeeds
RequestOk ==
    /\ pc = "loop"
    /\ requests' = requests + 1
    /\ callRequests' = callRequests + 1
    /\ LET records == Page(offset) IN
       IF Len(records) = 0
       THEN /\ Finish(all_records)
            /\ UNCHANGED <<all_records, offset>>
       ELSE IF ShortPage(records)
            THEN /\ all_records' = all_records \o records
                 /\ Finish(all_records \o records)
                 /\ UNCHANGED offset
            ELSE /\ all_records' = all_records \o records
                 /\ offset' = offset + limit
                 /\ UNCHANGED <<result, message, outcome, cache, pc>>
    /\ UNCHANGED <<catalog, rawName, now, calls, hit, seenAge, mainOutcome>>
    /\ UNCHANGED normVars

\* mutant of RequestFail: the failure leaves the function without a stored
\* result, as an exception would
RequestFail_Mutant ==
    /\ pc = "loop"
    /\ requests' = requests + 1
    /\ callRequests' = callRequests + 1
    /\ result' = FailureValue(all_records)
    /\ message' = "error_request"
    /\ outcome' = "failed"
    /\ pc' = "returned"
    /\ UNCHANGED <<catalog, rawName, now, calls, hit, seenAge, mainOutcome,
                   all_records, offset, cache>>
    /\ UNCHANGED normVars

\* one iteration whose request raises a requests.exceptions.RequestException
\* (connection error, raise_for_status on a non-2xx answer, undecodable body)
RequestFail ==
    /\ pc = "loop"
    /\ requests' = requests + 1
    /\ callRequests' = callRequests + 1
    /\ Return(FailureValue(all_records), "error_request", "failed")
    /\ UNCHANGED <<catalog, rawName, now, calls, hit, seenAge, mainOutcome,
                   all_records, offset>>
    /\ UNCHANGED normVars

\* one iteration whose body decodes to something that is not a JSON object:
\* data.get raises AttributeError, which the except clause does not catch
RequestCrash ==
    /\ pc = "loop"
    /\ requests' = requests + 1
    /\ callRequests' = callRequests + 1
    /\ outcome' = "raised"
    /\ mainOutcome' = "exception"
    /\ pc' = "idle"
    /\ UNCHANGED <<catalog, rawName, now, calls, hit, seenAge, all_records,
                   offset, result, message, cache>>
    /\ UNCHANGED normVars

\* main() after the call returned
MainCheck ==
    /\ pc = "returned"
    /\ mainOutcome' = IF IsEmpty(result) THEN "warning" ELSE "render"
    /\ pc' = "idle"
    /\ UNCHANGED <<catalog, rawName, now, cache, offset, all_records, requests,
                   callRequests, calls, hit, seenAge, result, message, outcome>>
    /\ UNCHANGED normVars

Next ==
    \/ Tick
    \/ CallHit
    \/ CallMiss
    \/ RequestOk
    \/ RequestFail
    \/ RequestCrash
    \/ MainCheck

Spec == Init /\ [][Next]_vars

(***************************************************************************)
(* The normalizer: normalize_columns and extract_coordinates.              *)
(*                                                                         *)
(* A cell of a DataFrame is one of                                         *)
(*   NaN            a missing value (the record had no such key, or None)  *)
(*   Num(n)         the number n                                           *)
(*   Str(parts)     a string, given by its comma-separated parts; a part   *)
(*                  n > 0 is the text of the number n, a part n < 0 is a   *)
(*                  text that is not a number                              *)
(*   Dict(lat, lon) a mapping, given by what .get('lat') and .get('lon')   *)
(*                  return (NaN for a missing key)                         *)
(***************************************************************************)
NaN == [t |-> "nan"]

Num(n) == [t |-> "num", v |-> n]

Str(parts) == [t |-> "str", parts |-> parts]

Dict(lat, lon) == [t |-> "dict", lat |-> lat, lon |-> lon]

\* pd.to_numeric(x, errors='coerce') on one cell
ToNumeric(c) ==
    IF c.t = "num" THEN c
    ELSE IF c.t = "str" /\ Len(c.parts) = 1 /\ c.parts[1] > 0 THEN Num(c.parts[1])
    ELSE NaN

\* df[name] : the cells of one column, row by row
Column(d, name) == [i \in 1..Len(d.rows) |-> d.rows[i][name]]

\* df[name] = vals
SetColumn(d, name, vals) ==
    [columns |-> d.columns \cup {name},
     rows |-> [i \in 1..Len(d.rows) |->
                 [c \in d.columns \cup {name} |->
                     IF c = name THEN vals[i] ELSE d.rows[i][c]]]]

\* the reconciliation table of normalize_columns, in its order
column_mapping ==
    << <<"commerce", "type_commerce">>,
       <<"dea_nom_commerce", "nom_commerce">>,
       <<"dea_jour_fermeture", "jour_fermeture">>,
       <<"dea_rue_livraison", "rue">>,
       <<"dea_cp_livraison", "code_postal">>,
       <<"dea_commune_livraison", "commune">>,
       <<"geocodage_ban", "coordonnees">> >>

\* mutant of CopyGuard: the canonical column is written even when it exists
CopyGuard_Mutant(d, old_col, new_col) == old_col \in d.columns

\* "if old_col in df.columns and new_col not in df.columns"
CopyGuard(d, old_col, new_col) == old_col \in d.columns /\ new_col \notin d.columns

RECURSIVE ApplyMapping(_, _)
\* the for loop of normalize_columns from the k-th pair on
ApplyMapping(d, k) ==
    IF k > Len(column_mapping) THEN d
    ELSE LET old_col == column_mapping[k][1]
             new_col == column_mapping[k][2]
         IN  ApplyMapping(IF CopyGuard(d, old_col, new_col)
                          THEN SetColumn(d, new_col, Column(d, old_col))
                          ELSE d,
                          k + 1)

normalize_columns(d) == ApplyMapping(d, 1)

\* mutant of DictGet: both coordinates are read from the 'lat' key
DictGet_Mutant(x, key) == IF x.t = "dict" THEN x.lat ELSE NaN

\* lambda x: x.get(key) if isinstance(x, dict) else None
DictGet(x, key) ==
    IF x.t = "dict" THEN (IF key = "lat" THEN x.lat ELSE x.lon) ELSE NaN

\* series.notna().any()
AnyNotNa(col) == \E i \in 1..Len(col) : col[i] # NaN

\* the geocodage_ban block: the frame it leaves and whether it returned
Strategy1(d) ==
    LET lat == [i \in 1..Len(d.rows) |->
                   ToNumeric(DictGet(d.rows[i]["geocodage_ban"], "lat"))]
        lon == [i \in 1..Len(d.rows) |->
                   ToNumeric(DictGet(d.rows[i]["geocodage_ban"], "lon"))]
    IN  [frame |-> SetColumn(SetColumn(d, "latitude", lat), "longitude", lon),
         returned |-> AnyNotNa(lat) /\ AnyNotNa(lon)]

coord_columns == <<"coordonnees", "geo_point_2d", "geolocation">>

\* df[col].dtype == 'object' : some cell is neither a number nor missing
IsObject(col) == \E i \in 1..Len(col) : col[i].t \in {"str", "dict"}

\* str.contains(',') on one cell (NaN, hence falsy, for a non-string)
ContainsComma(c) == c.t = "str" /\ Len(c.parts) >= 2

\* number of parts of a cell under str.split(',')
Width(c) == IF c.t = "str" THEN Len(c.parts) ELSE 0

\* len(coords.columns) of str.split(',', expand=True) : the widest row
SplitWidth(col) ==
    CHOOSE w \in 0..8 :
        /\ \A i \in 1..Len(col) : Width(col[i]) <= w
        /\ \E i \in 1..Len(col) : Width(col[i]) = w \/ w = 0

\* coords[k] for one row : its k-th part as a string, missing when it has none
Part(c, k) == IF c.t = "str" /\ Len(c.parts) >= k THEN Str(<<c.parts[k]>>) ELSE NaN

\* body of the loop over coord_columns for one column that exists
TryColumn(d, col) ==
    LET cells == Column(d, col) IN
    IF IsObject(cells) /\ (\E i \in 1..Len(cells) : ContainsComma(cells[i]))
       /\ SplitWidth(cells) = 2
    THEN [frame |-> SetColumn(
                      SetColumn(d, "latitude",
                                [i \in 1..Len(cells) |-> ToNumeric(Part(cells[i], 1))]),
                      "longitude",
                      [i \in 1..Len(cells) |-> ToNumeric(Part(cells[i], 2))]),
          broke |-> TRUE]
    ELSE [frame |-> d, broke |-> FALSE]

RECURSIVE Strategy2(_, _)
\* the loop over coord_columns from the k-th column on
Strategy2(d, k) ==
    IF k > Len(coord_columns) THEN d
    ELSE IF coord_columns[k] \in d.columns
         THEN LET r == TryColumn(d, coord_columns[k])
              IN  IF r.broke THEN r.frame ELSE Strategy2(d, k + 1)
         ELSE Strategy2(d, k + 1)

lat_cols == <<"latitude", "lat">>

lon_cols == <<"longitude", "lon", "lng">>

RECURSIVE InnerLoop(_, _, _)
\* "for lon_col in [...]" for one lat_col, from the j-th alias on; the break
\* leaves this loop only
InnerLoop(d, lat_col, j) ==
    IF j > Len(lon_cols) THEN d
    ELSE IF lat_col \in d.columns /\ lon_cols[j] \in d.columns
         THEN LET d1 == SetColumn(d, "latitude",
                          [i \in 1..Len(d.rows) |-> ToNumeric(d.rows[i][lat_col])])
              IN  SetColumn(d1, "longitude",
                          [i \in 1..Len(d1.rows) |-> ToNumeric(d1.rows[i][lon_cols[j]])])
         ELSE InnerLoop(d, lat_col, j + 1)

RECURSIVE OuterLoop(_, _)
\* "for lat_col in [...]" from the i-th alias on
OuterLoop(d, i) ==
    IF i > Len(lat_cols) THEN d
    ELSE OuterLoop(InnerLoop(d, lat_cols[i], 1), i + 1)

\* the block of the separately named columns
Strategy3(d) ==
    IF "latitude" \notin d.columns \/ "longitude" \notin d.columns
    THEN OuterLoop(d, 1)
    ELSE d

extract_coordinates(d) ==
    LET s1 == IF "geocodage_ban" \in d.columns
              THEN Strategy1(d)
              ELSE [frame |-> d, returned |-> FALSE]
    IN  IF s1.returned THEN s1.frame ELSE Strategy3(Strategy2(s1.frame, 1))

(***************************************************************************)
(* Inputs of the normalizer: DataFrames built from up to MaxRecords        *)
(* records that carry, together, up to MaxCells values.                    *)
(***************************************************************************)
TableFields ==
    {column_mapping[k][1] : k \in 1..Len(column_mapping)}
        \cup {column_mapping[k][2] : k \in 1..Len(column_mapping)}

CoordFields ==
    {"geocodage_ban", "coordonnees", "geo_point_2d", "geolocation",
     "latitude", "lat", "longitude", "lon", "lng"}

GeoValues ==
    {Dict(Str(<<1>>), Str(<<2>>)), Dict(Str(<<1>>), Str(<<-1>>)), Dict(NaN, NaN)}

CoordValues == {Str(<<3, 4>>), Str(<<3, 4, 5>>), Str(<<-1, 4>>)}

\* every key carries values of its own, so that a value tells its origin
FieldNumber(f) ==
    CASE f = "latitude" -> 6
      [] f = "lat" -> 7
      [] f = "longitude" -> 8
      [] f = "lon" -> 9
      [] f = "lng" -> 10
      [] f = "commerce" -> 11
      [] f = "type_commerce" -> 12
      [] f = "dea_nom_commerce" -> 13
      [] f = "nom_commerce" -> 14
      [] f = "dea_jour_fermeture" -> 15
      [] f = "jour_fermeture" -> 16
      [] f = "dea_rue_livraison" -> 17
      [] f = "rue" -> 18
      [] f = "dea_cp_livraison" -> 19
      [] f = "code_postal" -> 20
      [] f = "dea_commune_livraison" -> 21
      [] OTHER -> 22

\* the values a record may carry under the key f
ValuesOf(f) ==
    IF f = "geocodage_ban" THEN GeoValues
    ELSE IF f \in {"coordonnees", "geo_point_2d", "geolocation"} THEN CoordValues
    ELSE IF f \in {"latitude", "lat", "longitude", "lon", "lng"}
         THEN {Str(<<FieldNumber(f)>>), Str(<<-1>>)}
    ELSE {Str(<<-FieldNumber(f)>>)}

\* pd.DataFrame of n records without any key
Blank(n) == [columns |-> {}, rows |-> [i \in 1..n |-> <<>>]]

\* the frame of the same records once record i also carries f: v
AddCell(d, i, f, v) ==
    IF f \in d.columns
    THEN IF d.rows[i][f] = NaN
         THEN [d EXCEPT !.rows[i][f] = v]
         ELSE d
    ELSE SetColumn(d, f, [j \in 1..Len(d.rows) |-> IF j = i THEN v ELSE NaN])

RECURSIVE SetToSeq(_)
\* the elements of a finite set, in some fixed order
SetToSeq(S) ==
    IF S = {} THEN <<>>
    ELSE LET x == CHOOSE y \in S : TRUE IN <<x>> \o SetToSeq(S \ {x})

\* every (record, key, value) that record i may hold over the keys fields
RowSlots(fields, i) ==
    SetToSeq(UNION { {<<i, f, v>> : v \in ValuesOf(f)} : f \in fields })

RECURSIVE SlotsFrom(_, _)
\* the slots of the records i..MaxRecords, record after record
SlotsFrom(fields, i) ==
    IF i > MaxRecords THEN <<>>
    ELSE RowSlots(fields, i) \o SlotsFrom(fields, i + 1)

TableSlots == SlotsFrom(TableFields, 1)

CoordSlots == SlotsFrom(CoordFields, 1)

RECURSIVE Draw(_, _, _, _, _)
\* raw is d, or d with up to k more of the slots lo..hi, taken in increasing order
Draw(d, slots, lo, hi, k) ==
    \/ raw = d
    \/ /\ k > 0
       /\ \E x \in lo..hi :
              Draw(AddCell(d, slots[x][1], slots[x][2], slots[x][3]),
                   slots, x + 1, hi, k - 1)

\* raw is a frame of 1..MaxRecords records holding at most MaxCells of the slots
DrawInput(slots) ==
    /\ \E n \in 1..MaxRecords :
           Draw(Blank(n), slots, 1, n * (Len(slots) \div MaxRecords), MaxCells)
    /\ ~IsEmpty(raw)

\* the fetch part stays at rest while a frame is normalized
FetchOff ==
    /\ catalog = 0
    /\ rawName = <<"a">>
    /\ FetchIdle

InitColumns ==
    /\ FetchOff
    /\ DrawInput(TableSlots)
    /\ df = raw
    /\ phase = "input"

InitCoords ==
    /\ FetchOff
    /\ DrawInput(CoordSlots)
    /\ df = raw
    /\ phase = "input"

\* main: df = normalize_columns(df)
NormalizeColumns ==
    /\ phase = "input"
    /\ df' = normalize_columns(df)
    /\ phase' = "normalized"
    /\ UNCHANGED <<raw, fetchVars>>

\* main: df = extract_coordinates(df)
ExtractCoordinates ==
    /\ phase = "normalized"
    /\ df' = extract_coordinates(df)
    /\ phase' = "done"
    /\ UNCHANGED <<raw, fetchVars>>

NextNorm ==
    \/ NormalizeColumns
    \/ ExtractCoordinates

SpecColumns == InitColumns /\ [][NextNorm]_vars

SpecCoords == InitCoords /\ [][NextNorm]_vars

(***************************************************************************)
(* Claims about the fetch.                                                 *)
(***************************************************************************)
Errors == {"error_no_data", "error_request"}

\* C1: an uncached call whose requests all succeed, against a catalog of
\* 100*fullPages + k records (0 <= k < 100), issues exactly fullPages+1
\* requests and returns exactly the catalog's records in API order; an
\* empty catalog costs exactly one request and gives an empty dataset.
C1_Pagination ==
    outcome = "ok" =>
        /\ callRequests = (catalog \div limit) + 1
        /\ Len(result.rows) = catalog
        /\ \A i \in 1..catalog : result.rows[i] = i
        /\ (catalog = 0 => callRequests = 1 /\ result.rows = <<>>)

C1_Witness ==
    /\ outcome = "ok"
    /\ catalog = 2 * limit
    /\ callRequests = 3
    /\ Len(result.rows) = 2 * limit

\* C2 as stated: when the second call is answered within the cache window,
\* the two calls together have issued exactly one network request.
C2_Original ==
    (calls = 2 /\ hit) => requests = 1

\* C2 amended: a call that finds an entry younger than one hour issues no
\* request and returns the stored dataset, so two calls within the window
\* cost only the requests of the first one (fullPages+1 when every page was
\* received, hence one only for a catalog below 100 records); a call that
\* finds no entry or an entry of age >= 3600 s issues a new request.
C2_CacheWindow ==
    /\ (calls >= 1 /\ seenAge >= 0 /\ seenAge < ttl) =>
            (hit /\ callRequests = 0 /\ result = cache.value)
    /\ (calls >= 1 /\ (seenAge = -1 \/ seenAge >= ttl)) =>
            (~hit /\ (outcome # "running" => callRequests >= 1))
    /\ (calls = 2 /\ hit /\ cache.msg # "error_request") =>
            requests = (catalog \div limit) + 1

C2_Witness ==
    /\ calls = 3
    /\ ~hit
    /\ seenAge >= ttl
    /\ outcome = "ok"
    /\ catalog >= limit
    /\ requests = 2 * ((catalog \div limit) + 1)

\* C3: when the request of any page fails, the call issues no further
\* request (the failing request is its last one), reports one fetch error
\* and returns none of the records of the earlier pages.
C3_AllOrNothing ==
    /\ outcome = "failed" =>
            /\ result = EmptyFrame
            /\ message = "error_request"
            /\ cache.value = EmptyFrame
    /\ outcome \in {"failed", "raised"} =>
            /\ callRequests = (offset \div limit) + 1
            /\ Len(all_records) = offset

C3_Witness ==
    /\ outcome = "failed"
    /\ Len(all_records) = 2 * limit
    /\ callRequests = 3
    /\ result = EmptyFrame

\* C8 as stated: when every request succeeds and the catalog holds zero
\* records, no error is reported and main does not treat the dataset as a
\* failure to load.
C8_Original ==
    (outcome = "ok" /\ catalog = 0) =>
        /\ message \notin Errors
        /\ (pc = "idle" => mainOutcome # "warning")

\* C8 amended: when every request succeeds and the catalog holds zero
\* records, load_data_from_api reports the error "no data found" and
\* returns an empty DataFrame, and main shows its could-not-load warning
\* and stops, as it does after a failed fetch.
C8_EmptyIsError ==
    (outcome = "ok" /\ catalog = 0) =>
        /\ message = "error_no_data"
        /\ IsEmpty(result)
        /\ (pc = "idle" => mainOutcome = "warning")

C8_Witness ==
    /\ outcome = "ok"
    /\ catalog = 0
    /\ pc = "idle"
    /\ mainOutcome = "warning"
    /\ message = "error_no_data"


\* the cache holds the result of a failed fetch that is still within its window
FailedEntryLive ==
    cache.set /\ cache.msg = "error_request" /\ now - cache.at < ttl

\* C11: a failed fetch is memoized like a successful one: the step in which
\* a request failure is caught stores the empty result with its error in
\* the cache, and as long as that entry is younger than one hour no step
\* issues a request and every call that starts is answered with that same
\* empty result and issues nothing.
C11_FailureMemoized ==
    [][ /\ (pc = "loop" /\ outcome' = "failed") =>
               cache' = [set |-> TRUE, at |-> now, value |-> EmptyFrame,
                         msg |-> "error_request"]
        /\ FailedEntryLive =>
               /\ requests' = requests
               /\ calls' # calls =>
                      /\ hit'
                      /\ callRequests' = 0
                      /\ result' = EmptyFrame
                      /\ message' = "error_request"
                      /\ cache' = cache ]_vars

C11_Witness ==
    /\ calls = 2
    /\ hit
    /\ seenAge = Quantum
    /\ cache.msg = "error_request"
    /\ result = EmptyFrame
    /\ message = "error_request"
    /\ Len(all_records) >= limit
    /\ requests = (Len(all_records) \div limit) + 1

(***************************************************************************)
(* Claims about the normalizer.                                            *)
(***************************************************************************)
\* the cell of record i under name, NaN when the frame has no such column
Field(d, i, name) == IF name \in d.columns THEN d.rows[i][name] ELSE NaN

\* the cell is the text of one number
IsNumberText(c) == c.t = "str" /\ Len(c.parts) = 1 /\ c.parts[1] > 0

\* the cell is "<lat>,<lon>" : exactly two parts, both numbers
IsPairText(c) == c.t = "str" /\ Len(c.parts) = 2 /\ c.parts[1] > 0 /\ c.parts[2] > 0

Records(d) == 1..Len(d.rows)

\* C4: after normalize_columns and extract_coordinates every record has
\* both latitude and longitude set to numbers, or neither of them set.
C4_BothOrNeither ==
    phase = "done" =>
        \A i \in Records(df) :
            LET la == Field(df, i, "latitude")
                lo == Field(df, i, "longitude")
            IN  (la.t = "num" /\ lo.t = "num") \/ (la = NaN /\ lo = NaN)

\* C5: for every pair (source -> canonical) of the table, a canonical
\* column that the input already has keeps every value, and a canonical
\* column is created exactly when the input lacks it and has the source
\* column, as a copy of the source column; the input's columns are kept.
C5_FillIfAbsent ==
    phase \in {"normalized", "done"} =>
        \A k \in 1..Len(column_mapping) : \A i \in Records(raw) :
            LET old_col == column_mapping[k][1]
                new_col == column_mapping[k][2]
            IN  /\ new_col \in raw.columns =>
                       df.rows[i][new_col] = raw.rows[i][new_col]
                /\ new_col \notin raw.columns =>
                       IF old_col \in raw.columns
                       THEN /\ new_col \in df.columns
                            /\ df.rows[i][new_col] = raw.rows[i][old_col]
                       ELSE new_col \notin df.columns
                /\ old_col \in raw.columns =>
                       df.rows[i][old_col] = raw.rows[i][old_col]

C5_Witness ==
    /\ phase = "normalized"
    /\ {"commerce", "type_commerce", "dea_nom_commerce"} \subseteq raw.columns
    /\ raw.rows[1]["commerce"] # NaN
    /\ raw.rows[1]["type_commerce"] # NaN
    /\ raw.rows[1]["commerce"] # raw.rows[1]["type_commerce"]
    /\ df.rows[1]["type_commerce"] = raw.rows[1]["type_commerce"]
    /\ "nom_commerce" \in df.columns

\* what the three strategies give for one record, as the claim reads them
FirstPairColumn(d, i) ==
    IF \E k \in 1..Len(coord_columns) : IsPairText(Field(d, i, coord_columns[k]))
    THEN LET k == CHOOSE k \in 1..Len(coord_columns) :
                      /\ IsPairText(Field(d, i, coord_columns[k]))
                      /\ \A j \in 1..(k - 1) : ~IsPairText(Field(d, i, coord_columns[j]))
         IN  Field(d, i, coord_columns[k])
    ELSE NaN

IsNumeric(c) == c.t = "num" \/ IsNumberText(c)

NumberOf(c) == IF c.t = "num" THEN c ELSE Num(c.parts[1])

AliasPairs ==
    << <<"latitude", "longitude">>, <<"latitude", "lon">>, <<"latitude", "lng">>,
       <<"lat", "longitude">>, <<"lat", "lon">>, <<"lat", "lng">> >>

AliasPairWorks(d, i, k) ==
    /\ IsNumeric(Field(d, i, AliasPairs[k][1]))
    /\ IsNumeric(Field(d, i, AliasPairs[k][2]))

\* the pair <<latitude, longitude>> the first succeeding strategy gives
\* for record i of d, <<NaN, NaN>> when none succeeds
Expected(d, i) ==
    LET g == Field(d, i, "geocodage_ban")
        p == FirstPairColumn(d, i)
    IN  IF g.t = "dict" /\ IsNumeric(g.lat) /\ IsNumeric(g.lon)
        THEN <<NumberOf(g.lat), NumberOf(g.lon)>>
        ELSE IF p # NaN
        THEN <<Num(p.parts[1]), Num(p.parts[2])>>
        ELSE IF \E k \in 1..Len(AliasPairs) : AliasPairWorks(d, i, k)
        THEN LET k == CHOOSE k \in 1..Len(AliasPairs) :
                          /\ AliasPairWorks(d, i, k)
                          /\ \A j \in 1..(k - 1) : ~AliasPairWorks(d, i, j)
             IN  <<NumberOf(Field(d, i, AliasPairs[k][1])),
                   NumberOf(Field(d, i, AliasPairs[k][2]))>>
        ELSE <<NaN, NaN>>

\* C6: for every record for which some strategy succeeds, the latitude and
\* longitude are exactly those of the lowest-numbered strategy that succeeds
\* (geocoding mapping, then "lat,lon" string, then alias columns, first
\* alias pair first): a failed strategy lets the next one be tried and
\* nothing later overwrites the first success.
C6_FirstSuccessWins ==
    phase = "done" =>
        \A i \in Records(df) :
            LET want == Expected(normalize_columns(raw), i)
            IN  want # <<NaN, NaN>> =>
                    <<Field(df, i, "latitude"), Field(df, i, "longitude")>> = want

\* the DataFrame of record i of d alone
Single(d, i) ==
    LET keys == {c \in d.columns : d.rows[i][c] # NaN}
    IN  [columns |-> keys, rows |-> << [c \in keys |-> d.rows[i][c]] >>]

\* main's normalization of a frame (skipped for an empty frame)
Normalize(d) == IF IsEmpty(d) THEN d ELSE extract_coordinates(normalize_columns(d))

CanonicalFields ==
    {column_mapping[k][2] : k \in 1..Len(column_mapping)} \cup {"latitude", "longitude"}

\* C7: every record gets, within its dataset, the canonical fields and the
\* latitude/longitude that normalizing that record alone gives.
C7_RecordIndependent ==
    phase = "done" =>
        \A i \in Records(df) : \A name \in CanonicalFields :
            Field(df, i, name) = Field(Normalize(Single(raw, i)), 1, name)

\* C9: a record whose geocodage_ban is a mapping with lat and lon both the
\* text of a number gets exactly these two numbers as latitude and
\* longitude, whatever the other records hold.
C9_StructuredGeocoding ==
    phase = "done" =>
        \A i \in Records(raw) :
            LET g == Field(raw, i, "geocodage_ban")
            IN  (g.t = "dict" /\ IsNumberText(g.lat) /\ IsNumberText(g.lon)) =>
                    /\ Field(df, i, "latitude") = Num(g.lat.parts[1])
                    /\ Field(df, i, "longitude") = Num(g.lon.parts[1])

C9_Witness ==
    /\ phase = "done"
    /\ Len(raw.rows) = 2
    /\ Field(raw, 1, "geocodage_ban") = Dict(Str(<<1>>), Str(<<2>>))
    /\ Field(raw, 2, "coordonnees") = Str(<<3, 4>>)
    /\ Field(raw, 1, "latitude") = Str(<<6>>)
    /\ Field(df, 1, "latitude") = Num(1)
    /\ Field(df, 1, "longitude") = Num(2)

\* C10: a record without geocodage_ban whose only coordinate string field
\* is "<lat>,<lon>" with two numeric parts gets these two numbers as
\* latitude and longitude, whichever other records the dataset holds.
C10_DelimitedString ==
    phase = "done" =>
        \A i \in Records(raw) : \A k \in 1..Len(coord_columns) :
            LET c == Field(raw, i, coord_columns[k])
            IN  (/\ Field(raw, i, "geocodage_ban") = NaN
                 /\ IsPairText(c)
                 /\ \A j \in 1..Len(coord_columns) :
                        j # k => Field(raw, i, coord_columns[j]) = NaN) =>
                    /\ Field(df, i, "latitude") = Num(c.parts[1])
                    /\ Field(df, i, "longitude") = Num(c.parts[2])

====
